---- MODULE Spec2Model ----
(***************************************************************************)
(* Layout and scaling of the "race" chart drawn by render_chart in the two *)
(* revisions pasos2.py and pasos3.py.                                      *)
(*                                                                         *)
(* A data frame is the sequence of its "Pasos"/"Paginas" values, in row    *)
(* order; a row is identified by its position in the data frame (this      *)
(* stands for the row's "Nombre").  The icon of a row only selects the     *)
(* glyph drawn at the marker position and is left out: it takes no part in *)
(* any coordinate.                                                         *)
(*                                                                         *)
(* Vertical coordinates are decimals with at most three places in the      *)
(* source (0.55, 0.35, 0.35/2 = 0.175, 0.02, 0.60, 0.85); they are kept    *)
(* here as integers in thousandths (550, 350, 175, 20, 600, 850).          *)
(* The closeness threshold MAX_STEPS * 0.03 is kept in hundredths          *)
(* (MAX_STEPS * 3) and a difference d is compared as 100 * d.              *)
(***************************************************************************)
EXTENDS Integers, Sequences, FiniteSets

VARIABLES df, chart2, chart3

vars == <<df, chart2, chart3>>

\* Longest data frame explored.
MaxLen == 4

\* Values a row may carry (non-negative integers, as load_data produces).
Values == {3, 10, 11, 12, 50, 51, 52, 100, 127, 133}

RECURSIVE SeqsUpTo(_)
SeqsUpTo(n) ==
    IF n = 0 THEN {<<>>}
    ELSE LET shorter == SeqsUpTo(n - 1)
         IN  shorter \cup {Append(s, v) : s \in {t \in shorter : Len(t) = n - 1}, v \in Values}

\* The data frames load_data may return.
Inputs == SeqsUpTo(MaxLen)

Max2(a, b) == IF a >= b THEN a ELSE b

\* df[column].max()
RECURSIVE SeqMax(_)
SeqMax(s) ==
    IF Len(s) = 1 THEN s[1] ELSE Max2(s[1], SeqMax(Tail(s)))

\* The elements of a finite set of integers in ascending order.
RECURSIVE SortedKeys(_)
SortedKeys(S) ==
    IF S = {} THEN <<>>
    ELSE LET m == CHOOSE x \in S : \A y \in S : x <= y
         IN  <<m>> \o SortedKeys(S \ {m})

\* range(start, stop, step) for step > 0
RECURSIVE Range(_, _, _)
Range(start, stop, step) ==
    IF start >= stop THEN <<>> ELSE <<start>> \o Range(start + step, stop, step)

\* Nothing drawn yet.
NoChart ==
    [shown |-> "none", MAX_STEPS |-> 0, drawn |-> <<>>, ticks |-> <<>>,
     entries |-> <<>>, cluster_starts |-> {}]

(***************************************************************************)
(* pasos2.py                                                               *)
(***************************************************************************)

STACK_STEP2 == 350

AxisMax2_NoFloor(d) == SeqMax(d) * 2

\* max_value = int(df["Pasos"].max()); MAX_STEPS = max(max_value * 2, 10)
AxisMax2(d) == Max2(SeqMax(d) * 2, 10)

\* groups[x]: the rows whose value is x, in data-frame order
Groups2(d, x) == SortedKeys({i \in 1..Len(d) : d[i] = x})

DrawGroup2_OffByOne(d, x) ==
    LET rows    == Groups2(d, x)
        n       == Len(rows)
        start_y == 550 - n * (STACK_STEP2 \div 2)
    IN  [k \in 1..n |->
            LET y == start_y + (k - 1) * STACK_STEP2
            IN  [name |-> rows[k], steps |-> d[rows[k]], y |-> y,
                 name_y |-> y + 350, stem |-> <<20, y - 20>>]]

\* One pass of the loop over sorted(groups.items()): the rows of value x.
DrawGroup2(d, x) ==
    LET rows    == Groups2(d, x)
        n       == Len(rows)
        start_y == 550 - (n - 1) * (STACK_STEP2 \div 2)
    IN  [k \in 1..n |->
            LET y == start_y + (k - 1) * STACK_STEP2
            IN  [name |-> rows[k], steps |-> d[rows[k]], y |-> y,
                 name_y |-> y + 350, stem |-> <<20, y - 20>>]]

RECURSIVE DrawGroups2(_, _)
DrawGroups2(d, keys) ==
    IF keys = <<>> THEN <<>>
    ELSE DrawGroup2(d, Head(keys)) \o DrawGroups2(d, Tail(keys))

Ticks2_PastEnd(M) ==
    LET tick_step == Max2(1, M \div 10)
    IN  Range(0, M + tick_step, tick_step)

\* tick_step = max(1, MAX_STEPS // 10); ticks = range(0, MAX_STEPS + 1, tick_step)
Ticks2(M) ==
    LET tick_step == Max2(1, M \div 10)
    IN  Range(0, M + 1, tick_step)

Layout2(d) ==
    IF d = <<>>
    THEN [NoChart EXCEPT !.shown = "info"]
    ELSE LET M == AxisMax2(d)
         IN  [NoChart EXCEPT !.shown = "chart",
                             !.MAX_STEPS = M,
                             !.drawn = DrawGroups2(d, SortedKeys({d[i] : i \in 1..Len(d)})),
                             !.ticks = Ticks2(M)]

\* render_chart of pasos2.py
render_chart2 ==
    /\ chart2.shown = "none"
    /\ chart2' = Layout2(df)
    /\ UNCHANGED <<df, chart3>>

(***************************************************************************)
(* pasos3.py                                                               *)
(***************************************************************************)

STACK_STEP3 == 350

\* NEAR_PCT = 0.03, in hundredths
NEAR_PCT == 3

\* LABEL_LEVELS = [0.35, 0.60, 0.85]; level l is LABEL_LEVELS[l + 1] here
LABEL_LEVELS == <<350, 600, 850>>

\* An entry that has no "label_level" key yet.
NoLevel == -1

AxisMax3_Floor(d) == Max2((3 * SeqMax(d)) \div 2, 10)

\* winner = int(df["Paginas"].max())
\* MAX_STEPS = max(int(math.ceil(winner * 1.5)), 10)
AxisMax3(d) == Max2((3 * SeqMax(d) + 1) \div 2, 10)

\* by_x.get(steps, 0)
DictGet(by_x, k, default) == IF k \in DOMAIN by_x THEN by_x[k] ELSE default

\* by_x[steps] = v
DictSet(by_x, k, v) ==
    [j \in DOMAIN by_x \cup {k} |-> IF j = k THEN v ELSE by_x[j]]

RECURSIVE BuildEntries_NoCount(_, _, _, _)
BuildEntries_NoCount(d, i, by_x, entries) ==
    IF i > Len(d) THEN entries
    ELSE LET steps  == d[i]
             level  == DictGet(by_x, steps, 0)
             base_y == 550 + level * STACK_STEP3
         IN  BuildEntries_NoCount(d, i + 1, DictSet(by_x, steps, level),
                 Append(entries, [steps |-> steps, name |-> i, base_y |-> base_y,
                                  label_level |-> NoLevel]))

\* 1) the loop over df.iterrows(), from row i on
RECURSIVE BuildEntries(_, _, _, _)
BuildEntries(d, i, by_x, entries) ==
    IF i > Len(d) THEN entries
    ELSE LET steps  == d[i]
             level  == DictGet(by_x, steps, 0)
             base_y == 550 + level * STACK_STEP3
         IN  BuildEntries(d, i + 1, DictSet(by_x, steps, level + 1),
                 Append(entries, [steps |-> steps, name |-> i, base_y |-> base_y,
                                  label_level |-> NoLevel]))

InsertSorted_Unstable(sorted, e) ==
    LET before == SelectSeq(sorted, LAMBDA f : f.steps < e.steps)
        after  == SelectSeq(sorted, LAMBDA f : ~(f.steps < e.steps))
    IN  before \o <<e>> \o after

\* Stable insertion of e into a sequence sorted by "steps": e goes after every
\* element whose key is not greater than its own.
InsertSorted(sorted, e) ==
    LET before == SelectSeq(sorted, LAMBDA f : f.steps <= e.steps)
        after  == SelectSeq(sorted, LAMBDA f : ~(f.steps <= e.steps))
    IN  before \o <<e>> \o after

\* entries.sort(key=lambda e: e["steps"])   (list.sort is stable)
RECURSIVE SortEntries(_)
SortEntries(entries) ==
    IF entries = <<>> THEN <<>>
    ELSE InsertSorted(SortEntries(SubSeq(entries, 1, Len(entries) - 1)),
                      entries[Len(entries)])

\* entries[i-1].get("label_level", 0)
GetLevel(e) == IF e.label_level = NoLevel THEN 0 ELSE e.label_level

RECURSIVE LabelWalk_AtLeast(_, _, _, _, _)
LabelWalk_AtLeast(entries, i, cluster_start, starts, M) ==
    LET dx_thresh == M * NEAR_PCT
    IN  IF i > Len(entries)
        THEN [entries |-> entries, cluster_starts |-> starts]
        ELSE IF i = cluster_start
        THEN LabelWalk_AtLeast([entries EXCEPT ![i].label_level = 0], i + 1,
                       cluster_start, starts \cup {i}, M)
        ELSE IF 100 * (entries[i].steps - entries[i - 1].steps) >= dx_thresh
        THEN LabelWalk_AtLeast([entries EXCEPT ![i].label_level = 0], i + 1,
                       i, starts \cup {i}, M)
        ELSE LET prev_level == GetLevel(entries[i - 1])
             IN  LabelWalk_AtLeast([entries EXCEPT
                               ![i].label_level = (prev_level + 1) % Len(LABEL_LEVELS)],
                           i + 1, cluster_start, starts, M)

RECURSIVE LabelWalk_NoCycle(_, _, _, _, _)
LabelWalk_NoCycle(entries, i, cluster_start, starts, M) ==
    LET dx_thresh == M * NEAR_PCT
    IN  IF i > Len(entries)
        THEN [entries |-> entries, cluster_starts |-> starts]
        ELSE IF i = cluster_start
        THEN LabelWalk_NoCycle([entries EXCEPT ![i].label_level = 0], i + 1,
                       cluster_start, starts \cup {i}, M)
        ELSE IF 100 * (entries[i].steps - entries[i - 1].steps) > dx_thresh
        THEN LabelWalk_NoCycle([entries EXCEPT ![i].label_level = 0], i + 1,
                       i, starts \cup {i}, M)
        ELSE LET prev_level == GetLevel(entries[i - 1])
             IN  LabelWalk_NoCycle([entries EXCEPT
                               ![i].label_level = prev_level % Len(LABEL_LEVELS)],
                           i + 1, cluster_start, starts, M)

\* 2) the loop "for i in range(len(entries))", from position i on (positions
\* count from 1 here).  starts collects the positions cluster_start has held.
RECURSIVE LabelWalk(_, _, _, _, _)
LabelWalk(entries, i, cluster_start, starts, M) ==
    LET dx_thresh == M * NEAR_PCT
    IN  IF i > Len(entries)
        THEN [entries |-> entries, cluster_starts |-> starts]
        ELSE IF i = cluster_start
        THEN LabelWalk([entries EXCEPT ![i].label_level = 0], i + 1,
                       cluster_start, starts \cup {i}, M)
        ELSE IF 100 * (entries[i].steps - entries[i - 1].steps) > dx_thresh
        THEN LabelWalk([entries EXCEPT ![i].label_level = 0], i + 1,
                       i, starts \cup {i}, M)
        ELSE LET prev_level == GetLevel(entries[i - 1])
             IN  LabelWalk([entries EXCEPT
                               ![i].label_level = (prev_level + 1) % Len(LABEL_LEVELS)],
                           i + 1, cluster_start, starts, M)

Draw3_Below(e) ==
    [name |-> e.name, steps |-> e.steps, y |-> e.base_y,
     name_y |-> e.base_y - LABEL_LEVELS[e.label_level + 1],
     stem |-> <<20, e.base_y - 20>>]

\* 3) one pass of the loop "for e in entries": marker, name and stem of e
Draw3(e) ==
    [name |-> e.name, steps |-> e.steps, y |-> e.base_y,
     name_y |-> e.base_y + LABEL_LEVELS[e.label_level + 1],
     stem |-> <<20, e.base_y - 20>>]

Layout3(d) ==
    IF d = <<>>
    THEN [NoChart EXCEPT !.shown = "info"]
    ELSE LET M      == AxisMax3(d)
             sorted == SortEntries(BuildEntries(d, 1, <<>>, <<>>))
             walked == LabelWalk(sorted, 1, 1, {}, M)
         IN  [NoChart EXCEPT !.shown = "chart",
                             !.MAX_STEPS = M,
                             !.entries = walked.entries,
                             !.cluster_starts = walked.cluster_starts,
                             !.drawn = [k \in 1..Len(walked.entries) |->
                                           Draw3(walked.entries[k])]]

\* render_chart of pasos3.py
render_chart3 ==
    /\ chart3.shown = "none"
    /\ chart3' = Layout3(df)
    /\ UNCHANGED <<df, chart2>>

\* The data frame load_data returned; nothing is drawn yet.
Init ==
    /\ df \in Inputs
    /\ chart2 = NoChart
    /\ chart3 = NoChart

Next ==
    \/ render_chart2
    \/ render_chart3

Spec == Init /\ [][Next]_vars
(***************************************************************************)
(* Properties                                                              *)
(***************************************************************************)

Rows == 1..Len(df)

\* The largest value of the data frame, stated without the code's fold.
Winner == CHOOSE w \in {df[i] : i \in Rows} : \A i \in Rows : df[i] <= w

\* The rows that share row r's value, and r's 0-based place among them.
GroupOf(r) == {j \in Rows : df[j] = df[r]}
RankOf(r) == Cardinality({j \in GroupOf(r) : j < r})

Both == chart2.shown = "chart" /\ chart3.shown = "chart"

Abs(a) == IF a >= 0 THEN a ELSE -a

\* C1: for a non-empty data frame the axis maximum MAX_STEPS is at least the
\* largest value and at least 10, in pasos2 and in pasos3.
C1_AxisCoversWinner ==
    /\ chart2.shown = "chart" =>
          chart2.MAX_STEPS >= 10 /\ \A i \in Rows : chart2.MAX_STEPS >= df[i]
    /\ chart3.shown = "chart" =>
          chart3.MAX_STEPS >= 10 /\ \A i \in Rows : chart3.MAX_STEPS >= df[i]

C1_Witness ==
    /\ Both
    /\ chart2.MAX_STEPS > 10
    /\ chart3.MAX_STEPS > 10
    /\ Len(df) >= 2

\* Values of the form {1, 2, 5} x 10^k
NiceValues == {m * p : m \in {1, 2, 5}, p \in {1, 10, 100, 1000}}

NiceCeiling(raw) ==
    CHOOSE n \in NiceValues : n >= raw /\ \A m \in NiceValues : m >= raw => n <= m

\* C2 as stated: the axis maximum of pasos3 is the smallest {1,2,5} x 10^k
\* that is >= ceil(winner * 1.5) (and >= 10); a single record of value 50
\* gives 100.
C2_NiceCeiling ==
    chart3.shown = "chart" =>
        /\ chart3.MAX_STEPS = Max2(NiceCeiling((3 * Winner + 1) \div 2), 10)
        /\ df = <<50>> => chart3.MAX_STEPS = 100

\* C2 as amended: the axis maximum of pasos3 is exactly
\* max(ceil(winner * 1.5), 10), the least integer m >= 10 with m >= 1.5 * winner,
\* with no snapping; a single record of value 50 gives 75.
C2_ExactCeiling ==
    chart3.shown = "chart" =>
        LET M == chart3.MAX_STEPS
        IN  /\ M >= 10
            /\ 2 * M >= 3 * Winner
            /\ M > 10 => 2 * (M - 1) < 3 * Winner
            /\ df = <<50>> => M = 75

C2_Witness ==
    /\ chart3.shown = "chart"
    /\ df = <<50>>
    /\ chart3.MAX_STEPS = 75

\* C3: markers of rows with the same value have pairwise distinct y: member i
\* (0-based, input order) of a group of n gets 0.55 - (n-1)*0.35/2 + i*0.35 in
\* pasos2 and 0.55 + i*0.35 in pasos3; consecutive members are 0.35 apart and
\* a row whose value is unique gets 0.55.
C3_MarkerStacking ==
    /\ chart2.shown = "chart" =>
          /\ \A r \in Rows : \E k \in DOMAIN chart2.drawn :
                /\ chart2.drawn[k].name = r
                /\ chart2.drawn[k].y =
                      550 - (Cardinality(GroupOf(r)) - 1) * 175 + RankOf(r) * 350
          /\ \A k, l \in DOMAIN chart2.drawn :
                LET a == chart2.drawn[k]
                    b == chart2.drawn[l]
                IN  /\ (k # l /\ a.steps = b.steps) => a.y # b.y
                    /\ (a.steps = b.steps /\ RankOf(b.name) = RankOf(a.name) + 1)
                          => b.y - a.y = 350
                    /\ Cardinality(GroupOf(a.name)) = 1 => a.y = 550
    /\ chart3.shown = "chart" =>
          /\ \A r \in Rows : \E k \in DOMAIN chart3.drawn :
                /\ chart3.drawn[k].name = r
                /\ chart3.drawn[k].y = 550 + RankOf(r) * 350
          /\ \A k, l \in DOMAIN chart3.drawn :
                LET a == chart3.drawn[k]
                    b == chart3.drawn[l]
                IN  /\ (k # l /\ a.steps = b.steps) => a.y # b.y
                    /\ (a.steps = b.steps /\ RankOf(b.name) = RankOf(a.name) + 1)
                          => b.y - a.y = 350
                    /\ Cardinality(GroupOf(a.name)) = 1 => a.y = 550

C3_Witness ==
    /\ Both
    /\ \E r, q \in Rows : Cardinality(GroupOf(r)) = 3 /\ Cardinality(GroupOf(q)) = 1

\* C4: every label is strictly above its own marker: label y = marker y plus
\* one of 0.35, 0.60, 0.85 (always 0.35 in pasos2).
C4_LabelAboveMarker ==
    /\ \A k \in DOMAIN chart2.drawn :
          /\ chart2.drawn[k].name_y > chart2.drawn[k].y
          /\ chart2.drawn[k].name_y = chart2.drawn[k].y + 350
    /\ \A k \in DOMAIN chart3.drawn :
          /\ chart3.drawn[k].name_y > chart3.drawn[k].y
          /\ chart3.drawn[k].name_y - chart3.drawn[k].y \in {350, 600, 850}

C4_Witness ==
    /\ Both
    /\ Len(chart2.drawn) >= 3
    /\ \A o \in {350, 600, 850} : \E k \in DOMAIN chart3.drawn :
          chart3.drawn[k].name_y - chart3.drawn[k].y = o

\* C5 as stated: for [(A,100),(B,100)] the two markers are 0.35 apart and both
\* labels sit at label level 0 (0.35 above their own marker), in both revisions.
C5_BothLevelZero ==
    df = <<100, 100>> =>
        /\ chart2.shown = "chart" =>
              /\ Len(chart2.drawn) = 2
              /\ Abs(chart2.drawn[1].y - chart2.drawn[2].y) = 350
              /\ \A k \in 1..2 : chart2.drawn[k].name_y - chart2.drawn[k].y = 350
        /\ chart3.shown = "chart" =>
              /\ Len(chart3.drawn) = 2
              /\ Abs(chart3.drawn[1].y - chart3.drawn[2].y) = 350
              /\ \A k \in 1..2 : chart3.entries[k].label_level = 0
              /\ \A k \in 1..2 : chart3.drawn[k].name_y - chart3.drawn[k].y = 350

\* C5 as amended: for [(A,100),(B,100)] the two markers are 0.35 apart in both
\* revisions; in pasos2 both labels are 0.35 above their own marker; in pasos3
\* A's label is at level 0 (0.35 above its marker) and B's at level 1 (0.60
\* above its marker).
C5_SecondLevelOne ==
    df = <<100, 100>> =>
        /\ chart2.shown = "chart" =>
              /\ Len(chart2.drawn) = 2
              /\ Abs(chart2.drawn[1].y - chart2.drawn[2].y) = 350
              /\ \A k \in 1..2 : chart2.drawn[k].name_y - chart2.drawn[k].y = 350
        /\ chart3.shown = "chart" =>
              /\ Len(chart3.drawn) = 2
              /\ Abs(chart3.drawn[1].y - chart3.drawn[2].y) = 350
              /\ \A k \in 1..2 : chart3.drawn[k].name = k
              /\ chart3.entries[1].label_level = 0
              /\ chart3.entries[2].label_level = 1
              /\ chart3.drawn[1].name_y - chart3.drawn[1].y = 350
              /\ chart3.drawn[2].name_y - chart3.drawn[2].y = 600

C5_Witness ==
    /\ Both
    /\ df = <<100, 100>>

\* The walk of pasos3 over the rows vals, run with the axis maximum M.
WalkLevels(vals, M) ==
    LET w == LabelWalk(SortEntries(BuildEntries(vals, 1, <<>>, <<>>)), 1, 1, {}, M)
    IN  [k \in 1..Len(w.entries) |-> w.entries[k].label_level]

C7_Ticks ==
    chart2.shown = "chart" =>
        LET t == chart2.ticks
        IN  /\ Len(t) >= 1
            /\ t[1] = 0
            /\ \A k \in 1..(Len(t) - 1) : t[k] < t[k + 1]
            /\ t[Len(t)] <= chart2.MAX_STEPS

C7_Witness ==
    /\ chart2.shown = "chart"
    /\ Len(chart2.ticks) = 11
    /\ chart2.ticks[11] < chart2.MAX_STEPS

\* C8: in pasos3 every row yields exactly one marker and label, at x equal to
\* the row's own value; they are drawn in ascending order of value, rows of
\* equal value in input order, so that the stacking index grows with the
\* sorted position inside a group of equal values.
C8_TotalStableOrder ==
    chart3.shown = "chart" =>
        /\ Len(chart3.drawn) = Len(df)
        /\ \A r \in Rows :
              /\ Cardinality({k \in DOMAIN chart3.drawn : chart3.drawn[k].name = r}) = 1
              /\ \A k \in DOMAIN chart3.drawn :
                    chart3.drawn[k].name = r => chart3.drawn[k].steps = df[r]
        /\ \A k, l \in DOMAIN chart3.drawn :
              k < l =>
                  /\ chart3.drawn[k].steps <= chart3.drawn[l].steps
                  /\ chart3.drawn[k].steps = chart3.drawn[l].steps =>
                        /\ chart3.drawn[k].name < chart3.drawn[l].name
                        /\ chart3.drawn[k].y < chart3.drawn[l].y

C8_Witness ==
    /\ chart3.shown = "chart"
    /\ Len(df) = 4
    /\ df[1] > df[2]
    /\ df[2] = df[4]
    /\ df[3] < df[2]

\* C9: in both revisions every stem runs upward from 0.02 to just below the
\* marker: its upper end (marker y - 0.02) is strictly above 0.02, whatever the
\* size of the row's group of equal values.
C9_StemUpward ==
    /\ \A k \in DOMAIN chart2.drawn :
          /\ chart2.drawn[k].stem = <<20, chart2.drawn[k].y - 20>>
          /\ chart2.drawn[k].stem[2] > chart2.drawn[k].stem[1]
    /\ \A k \in DOMAIN chart3.drawn :
          /\ chart3.drawn[k].stem = <<20, chart3.drawn[k].y - 20>>
          /\ chart3.drawn[k].stem[2] > chart3.drawn[k].stem[1]

\* C10: in pasos3 two distinct rows of the same value never get the same
\* label y.
C10_TiedLabelsApart ==
    \A k, l \in DOMAIN chart3.drawn :
        (k # l /\ chart3.drawn[k].steps = chart3.drawn[l].steps)
            => chart3.drawn[k].name_y # chart3.drawn[l].name_y

C10_Witness ==
    /\ chart3.shown = "chart"
    /\ \E k \in 2..(Len(chart3.entries) - 1) :
          /\ chart3.entries[k - 1].steps # chart3.entries[k].steps
          /\ chart3.entries[k].steps = chart3.entries[k + 1].steps
          /\ chart3.entries[k].label_level = 2
          /\ chart3.entries[k + 1].label_level = 0
====
